---- MODULE Spec2Model ----
(***************************************************************************)
(* Model of the expense-automation email worker (src/src/index.ts) and of  *)
(* the D1 schema it writes to (src/schema.sql).                            *)
(*                                                                         *)
(* Every inbound email creates one workflow instance.  An instance runs    *)
(* ExpenseAutomationWorkflow.run, a sequence of step.do calls.  The        *)
(* workflow engine keeps, per instance and per step, the number of         *)
(* attempts made and the committed result (or final error); the store      *)
(* (processed_emails, expenses) is shared by all instances.                *)
(***************************************************************************)
EXTENDS Integers, Sequences, FiniteSets, TLC

(***************************************************************************)
(* Bound of the model: the faults of the environment in one behaviour       *)
(* (step timeouts, attempts lost after their write, responses of the      *)
(* database without meta, engine restarts).                                *)
(***************************************************************************)
MaxFaults == 2

\* The workflow instances that the email handler may create.
Instances == {"w1", "w2"}

(***************************************************************************)
(* defaultConfig                                                           *)
(***************************************************************************)
RetriesLimitTwo == 1 + 1

RetriesLimit == 1

(***************************************************************************)
(* The steps of run, named as in the step.do calls.                        *)
(***************************************************************************)
ParseStep == "parse email"

RecordStep == "recordInitialEmailProcessing"

ExtractStep == "extract text for AI"

ClassifyStep == "send to AI for expense parsing"

InsertStep == "insertExpenseRecord"

FinalizeStep == "finalizeEmailProcessingStatus"

Steps == {ParseStep, RecordStep, ExtractStep, ClassifyStep, InsertStep, FinalizeStep}

\* The step.do calls whose promise run awaits directly.
AwaitedSteps == {ParseStep, RecordStep, InsertStep, FinalizeStep}

(***************************************************************************)
(* Strings are sequences of one-character strings.  The operators bind     *)
(* their intermediate results with a quantifier over a singleton, so that  *)
(* each is computed once.                                                  *)
(***************************************************************************)
\* The least i >= from at which lit occurs in s, or 0.
IndexFrom(s, lit, from) ==
    CHOOSE i \in 0..Len(s) :
       \/ /\ i = 0
          /\ \A j \in from..(Len(s) - Len(lit) + 1) : SubSeq(s, j, j + Len(lit) - 1) # lit
       \/ /\ i >= from
          /\ i + Len(lit) - 1 <= Len(s)
          /\ SubSeq(s, i, i + Len(lit) - 1) = lit
          /\ \A j \in from..(i - 1) : SubSeq(s, j, j + Len(lit) - 1) # lit

Includes(s, lit) == IndexFrom(s, lit, 1) # 0

\* String.prototype.replace with a string pattern: the first occurrence only.
Replace(s, lit, rep) ==
    CHOOSE out \in {IF i = 0 THEN s
                    ELSE SubSeq(s, 1, i - 1) \o rep \o SubSeq(s, i + Len(lit), Len(s)) :
                    i \in {IndexFrom(s, lit, 1)}} : TRUE

RECURSIVE ReplaceAll(_, _, _)
\* String.prototype.replaceAll: every occurrence, left to right.
ReplaceAll(s, lit, rep) ==
    CHOOSE out \in {IF i = 0 THEN s
                    ELSE SubSeq(s, 1, i - 1) \o rep
                           \o ReplaceAll(SubSeq(s, i + Len(lit), Len(s)), lit, rep) :
                    i \in {IndexFrom(s, lit, 1)}} : TRUE

(***************************************************************************)
(* The configured PII literals (env) and their placeholders.               *)
(***************************************************************************)
YOUR_NAME == <<"J", "D">>

YOUR_EMAIL == <<"@">>

YOUR_ADDRESS == <<"S">>

YOUR_POSTAL_CODE == <<"Z">>

PiiLiterals == {YOUR_NAME, YOUR_EMAIL, YOUR_ADDRESS, YOUR_POSTAL_CODE}

PayeeName == <<"Payee Name">>

PayeeEmail == <<"Payee Email">>

PayeeAddress == <<"Payee Address">>

PayeePostalCode == <<"Payee Postal Code">>

\* The chain of .replace calls applied to the PDF text.
RedactFirst(t) ==
    CHOOSE out \in
       {Replace(t3, YOUR_POSTAL_CODE, PayeePostalCode) :
          t3 \in {Replace(t2, YOUR_ADDRESS, PayeeAddress) :
             t2 \in {Replace(t1, YOUR_EMAIL, PayeeEmail) :
                t1 \in {Replace(t, YOUR_NAME, PayeeName)}}}} : TRUE

\* The chain of .replaceAll calls applied to the text and HTML bodies.
RedactAll(t) ==
    CHOOSE out \in
       {ReplaceAll(t3, YOUR_POSTAL_CODE, PayeePostalCode) :
          t3 \in {ReplaceAll(t2, YOUR_ADDRESS, PayeeAddress) :
             t2 \in {ReplaceAll(t1, YOUR_EMAIL, PayeeEmail) :
                t1 \in {ReplaceAll(t, YOUR_NAME, PayeeName)}}}} : TRUE

(***************************************************************************)
(* Optional values: <<>> is undefined, <<v>> is the value v.               *)
(***************************************************************************)
Undefined == <<>>

Some(v) == <<v>>

\* JavaScript truthiness of an optional string.
Truthy(o) == o # Undefined /\ o[1] # <<>>

(***************************************************************************)
(* Raw emails as PostalMime parses them.  An attachment carries its MIME   *)
(* type and what unpdf makes of its content: the text, or readable FALSE   *)
(* when getDocumentProxy throws on it.                                     *)
(***************************************************************************)
Pdf(t) == [mimeType |-> "application/pdf", readable |-> TRUE, text |-> t]

CorruptPdf == [mimeType |-> "application/pdf", readable |-> FALSE, text |-> <<>>]

Png == [mimeType |-> "image/png", readable |-> FALSE, text |-> <<>>]

Mail(mid, addr, txt, htm, atts) ==
    [messageId |-> mid, subject |-> Some("Receipt"), from |-> [address |-> addr],
     text |-> txt, html |-> htm, attachments |-> atts]

Emails ==
    { \* a PDF receipt naming the payee twice, between an inline image and a second PDF
      Mail(Some("m1"), Some("shop"), Undefined, Undefined,
           <<Png, Pdf(<<"J", "D", "x", "J", "D">>), Pdf(<<"y">>)>>),
      \* an inline image only: the receipt is in the text body
      Mail(Some("m2"), Some("shop"), Some(<<"x", "@", "@">>), Some(<<"h">>), <<Png>>),
      \* a PDF that unpdf cannot open
      Mail(Some("m2"), Some("shop"), Some(<<"x">>), Undefined, <<CorruptPdf>>),
      \* PostalMime found no Message-ID header
      Mail(Undefined, Some("shop"), Some(<<>>), Some(<<"Z", "h", "Z">>), <<>>) }

\* ParsedEmailSchema.parse: messageId and subject must be strings.
ParsedEmailSchema(parsed) ==
    IF parsed.messageId = Undefined \/ parsed.subject = Undefined
    THEN [success |-> FALSE, data |-> parsed]
    ELSE [success |-> TRUE, data |-> parsed]

(***************************************************************************)
(* Step 3, 'extract text for AI'.                                          *)
(***************************************************************************)
RECURSIVE FirstPdf(_, _)
\* The index of the first PDF attachment at or after i, or 0.
FirstPdf(atts, i) ==
    IF i > Len(atts) THEN 0
    ELSE IF atts[i].mimeType = "application/pdf" THEN i
    ELSE FirstPdf(atts, i + 1)

\* getDocumentProxy or extractText throws on the attachment the loop reaches.
ExtractThrows(emailData) ==
    LET i == FirstPdf(emailData.attachments, 1)
    IN  i # 0 /\ ~emailData.attachments[i].readable

ExtractText(emailData) ==
    IF Len(emailData.attachments) > 0
    THEN LET i == FirstPdf(emailData.attachments, 1)
         IN  [contentForAi |-> IF i = 0 THEN <<>>
                               ELSE RedactFirst(emailData.attachments[i].text),
              type |-> "attachment"]
    ELSE IF Truthy(emailData.text) \/ Truthy(emailData.html)
    THEN LET text == IF emailData.text = Undefined THEN Undefined
                     ELSE Some(RedactAll(emailData.text[1]))
             html == IF emailData.html = Undefined THEN Undefined
                     ELSE Some(RedactAll(emailData.html[1]))
         IN  [contentForAi |-> IF Truthy(text) THEN text[1]
                               ELSE IF Truthy(html) THEN html[1]
                               ELSE <<>>,
              type |-> "body"]
    ELSE [contentForAi |-> <<>>, type |-> "none"]

(***************************************************************************)
(* Step 4: the model's responses and ExpenseSchema.                        *)
(***************************************************************************)
validCategories ==
    {"Meals", "Travel", "Office Supplies", "Software", "Hardware", "Training",
     "Telecom", "Other"}

Digits == {"0", "1", "2", "3", "4", "5", "6", "7", "8", "9"}

\* /^\d{2}-\d{2}-\d{4}$/
MatchesDate(s) ==
    /\ Len(s) = 10
    /\ s[3] = "-" /\ s[6] = "-"
    /\ \A i \in {1, 2, 4, 5, 7, 8, 9, 10} : s[i] \in Digits

ToUpperChar(c) ==
    CASE c = "u" -> "U" [] c = "s" -> "S" [] c = "d" -> "D"
      [] c = "e" -> "E" [] c = "r" -> "R" [] OTHER -> c

ToUpperCase(s) == [i \in 1..Len(s) |-> ToUpperChar(s[i])]

Response(v, d, a, c, cat) ==
    [vendor |-> v, expenseDate |-> d, amountValue |-> a, currencyCode |-> c,
     category |-> cat, description |-> Some("")]

AIResponses ==
    { Response(Some("Acme"), Some(<<"0","5","-","1","1","-","2","0","2","5">>),
               Some(42), Some(<<"u","s","d">>), Some("Meals")),
      \* no currencyCode
      Response(Some("Acme"), Some(<<"0","5","-","1","1","-","2","0","2","5">>),
               Some(42), Undefined, Some("Meals")),
      \* a free invoice
      Response(Some("Acme"), Some(<<"0","5","-","1","1","-","2","0","2","5">>),
               Some(0), Some(<<"E","U","R">>), Some("Other")),
      \* a category outside the list
      Response(Some("Acme"), Some(<<"0","5","-","1","1","-","2","0","2","5">>),
               Some(42), Some(<<"E","U","R">>), Some("Gadgets")) }

\* ExpenseSchema.parse: the first offending field, or the parsed data.
ExpenseSchema(response) ==
    LET issue ==
          IF response.vendor = Undefined THEN "vendor"
          ELSE IF response.expenseDate = Undefined
                  \/ ~MatchesDate(response.expenseDate[1]) THEN "expenseDate"
          ELSE IF response.amountValue = Undefined THEN "amountValue"
          ELSE IF response.currencyCode = Undefined
                  \/ Len(response.currencyCode[1]) # 3 THEN "currencyCode"
          ELSE IF response.category = Undefined THEN "category"
          ELSE "none"
    IN  IF issue # "none"
        THEN [success |-> FALSE, error |-> "ZodError", field |-> issue]
        ELSE [success |-> TRUE,
              data |-> [vendor |-> response.vendor[1],
                        expenseDate |-> response.expenseDate[1],
                        amountValue |-> response.amountValue[1],
                        currencyCode |-> ToUpperCase(response.currencyCode[1]),
                        category |-> response.category[1],
                        description |-> response.description]]

(***************************************************************************)
(* Step 5: the date conversion of insertExpenseRecord.                     *)
(***************************************************************************)
RECURSIVE Split(_, _)
\* String.prototype.split on a one-character separator.
Split(s, sep) ==
    CHOOSE out \in {IF i = 0 THEN <<s>>
                    ELSE <<SubSeq(s, 1, i - 1)>> \o Split(SubSeq(s, i + 1, Len(s)), sep) :
                    i \in {IndexFrom(s, <<sep>>, 1)}} : TRUE

\* A conversion that writes the month where the day belongs.
FormattedDateMonthTwice(expenseDate) ==
    CHOOSE out \in {parts[3] \o <<"-">> \o parts[2] \o <<"-">> \o parts[2] :
                    parts \in {Split(expenseDate, "-")}} : TRUE

\* const [day, month, year] = expenseDate.split('-'); `${year}-${month}-${day}`
FormattedDate(expenseDate) ==
    CHOOSE out \in {parts[3] \o <<"-">> \o parts[2] \o <<"-">> \o parts[1] :
                    parts \in {Split(expenseDate, "-")}} : TRUE

(***************************************************************************)
(* The D1 database of schema.sql.  A table is the set of its rows;         *)
(* AUTOINCREMENT ids come from the table's sqlite_sequence counter and     *)
(* are never reused.  A statement either fails with the constraint it      *)
(* breaks and changes nothing, or succeeds.                                *)
(***************************************************************************)
\* processed_emails: INSERT (message_id, subject, from_address, is_reimbursable).
InsertProcessedEmail(table, seq, message_id, subject, from_address, is_reimbursable) ==
    IF message_id = Undefined \/ from_address = Undefined
    THEN [success |-> FALSE, error |-> "SQLITE_CONSTRAINT_NOTNULL",
          table |-> table, seq |-> seq, last_row_id |-> 0]
    ELSE IF \E row \in table : row.message_id = message_id[1]
    THEN [success |-> FALSE, error |-> "SQLITE_CONSTRAINT_UNIQUE",
          table |-> table, seq |-> seq, last_row_id |-> 0]
    ELSE [success |-> TRUE, error |-> "none",
          table |-> table \cup {[id |-> seq + 1,
                                 message_id |-> message_id[1],
                                 subject |-> subject,
                                 from_address |-> from_address[1],
                                 status |-> "pending",
                                 is_reimbursable |-> is_reimbursable]},
          seq |-> seq + 1, last_row_id |-> seq + 1]

\* The UPDATE without its WHERE clause.
UpdateProcessedEmailStatusAllRows(table, status, id) ==
    [success |-> TRUE, error |-> "none",
     table |-> {[row EXCEPT !.status = status] : row \in table},
     changes |-> Cardinality(table)]

\* A finalize statement that removes the row instead of updating it.
DeleteProcessedEmail(table, status, id) ==
    [success |-> TRUE, error |-> "none",
     table |-> {row \in table : row.id # id},
     changes |-> Cardinality({row \in table : row.id = id})]

\* UPDATE processed_emails SET status = ?, processed_at = CURRENT_TIMESTAMP WHERE id = ?
UpdateProcessedEmailStatus(table, status, id) ==
    IF status \notin {"pending", "processed", "failed", "skipped"}
    THEN [success |-> FALSE, error |-> "SQLITE_CONSTRAINT_CHECK", table |-> table,
          changes |-> 0]
    ELSE [success |-> TRUE, error |-> "none",
          table |-> {IF row.id = id THEN [row EXCEPT !.status = status] ELSE row :
                     row \in table},
          changes |-> Cardinality({row \in table : row.id = id})]

\* expenses.status GENERATED ALWAYS AS (CASE WHEN is_reimbursable = 0 ...)
ExpenseStatus(is_reimbursable) ==
    IF is_reimbursable = 0 THEN "non_reimbursable" ELSE "pending"

\* The table CHECK on (is_reimbursable, status).
ExpenseStatusCheck(row) ==
    \/ row.is_reimbursable = 0 /\ row.status = "non_reimbursable"
    \/ row.is_reimbursable = 1
         /\ row.status \in {"pending", "approved", "rejected", "reimbursed"}

\* A schema that only excludes negative amounts.
AmountCheckNonNegative(amount) == amount >= 0

\* expenses.amount: CHECK(amount > 0)
AmountCheck(amount) == amount > 0

\* A mis-written schema: the generated status ignores the flag, nothing checks it.
InsertExpenseWrongStatus(table, seq, emails, email_id, amount, currency, description, expense_date, category, vendor) ==
    [success |-> TRUE, error |-> "none",
     table |-> table \cup {[id |-> seq + 1, email_id |-> email_id, amount |-> amount,
                            currency |-> currency, description |-> description,
                            expense_date |-> expense_date, category |-> category,
                            vendor |-> vendor, is_reimbursable |-> 0,
                            status |-> "pending"]},
     seq |-> seq + 1, last_row_id |-> seq + 1]

\* expenses: INSERT (email_id, amount, currency, description, expense_date,
\* category, vendor); is_reimbursable takes its default 0.
InsertExpense(table, seq, emails, email_id, amount, currency, description, expense_date, category, vendor) ==
    LET row == [id |-> seq + 1, email_id |-> email_id, amount |-> amount,
                currency |-> currency, description |-> description,
                expense_date |-> expense_date, category |-> category,
                vendor |-> vendor, is_reimbursable |-> 0,
                status |-> ExpenseStatus(0)]
        failure ==
          IF ~AmountCheck(amount) \/ Len(currency) # 3 \/ ~ExpenseStatusCheck(row)
          THEN "SQLITE_CONSTRAINT_CHECK"
          ELSE IF ~(\E e \in emails : e.id = email_id) \/ category \notin validCategories
          THEN "SQLITE_CONSTRAINT_FOREIGNKEY"
          ELSE "none"
    IN  IF failure # "none"
        THEN [success |-> FALSE, error |-> failure, table |-> table, seq |-> seq,
              last_row_id |-> 0]
        ELSE [success |-> TRUE, error |-> "none", table |-> table \cup {row},
              seq |-> seq + 1, last_row_id |-> seq + 1]

(***************************************************************************)
(* State.                                                                  *)
(*   instance[w]     "none" before the email handler created w, then       *)
(*                   "running", and finally "complete" or "errored"        *)
(*   payload[w]      event.payload.email of w                              *)
(*   stepState[w][s] "pending" (run has not called step.do for s yet),     *)
(*                   "running" (called, not settled: an attempt is in      *)
(*                   flight or the engine waits to retry), "done" (result  *)
(*                   committed) or "failed" (budget exhausted)             *)
(*   attempts[w][s]  attempts of s started so far                          *)
(*   errors[w][s]    the errors in which attempts of s have ended          *)
(*   output[w][s]    the committed result of s, <<>> while there is none   *)
(*   processed_emails, expenses, sqlite_sequence   the D1 database         *)
(*   faults          timeouts, lost attempts and engine restarts so far    *)
(*   resumed[w]      w was restarted between the commit of                 *)
(*                   recordInitialEmailProcessing and that of              *)
(*                   insertExpenseRecord                                   *)
(***************************************************************************)
VARIABLES instance, payload, stepState, attempts, errors, output,
          processed_emails, expenses, sqlite_sequence, faults, resumed

vars == <<instance, payload, stepState, attempts, errors, output,
          processed_emails, expenses, sqlite_sequence, faults, resumed>>

dbVars == <<processed_emails, expenses, sqlite_sequence>>

NoEmail == Mail(Undefined, Undefined, Undefined, Undefined, <<>>)

Init ==
    /\ instance = [w \in Instances |-> "none"]
    /\ payload = [w \in Instances |-> NoEmail]
    /\ stepState = [w \in Instances |-> [s \in Steps |-> "pending"]]
    /\ attempts = [w \in Instances |-> [s \in Steps |-> 0]]
    /\ errors = [w \in Instances |-> [s \in Steps |-> {}]]
    /\ output = [w \in Instances |-> [s \in Steps |-> <<>>]]
    /\ processed_emails = {}
    /\ expenses = {}
    /\ sqlite_sequence = [processed_emails |-> 0, expenses |-> 0]
    /\ faults = 0
    /\ resumed = [w \in Instances |-> FALSE]

Done(w, s) == stepState[w][s] = "done"

Settled(w, s) == stepState[w][s] \in {"done", "failed"}

Running(w, s) == instance[w] = "running" /\ stepState[w][s] = "running"

(***************************************************************************)
(* The email handler: one new workflow instance per delivery.  run starts  *)
(* and calls step.do('parse email').  The ids are random UUIDs: w1 names   *)
(* the instance of the first delivery, w2 that of the second.              *)
(***************************************************************************)
email(w, rawEmail) ==
    /\ instance[w] = "none"
    /\ w = "w2" => instance["w1"] # "none"
    /\ instance' = [instance EXCEPT ![w] = "running"]
    /\ payload' = [payload EXCEPT ![w] = rawEmail]
    /\ stepState' = [stepState EXCEPT ![w][ParseStep] = "running"]
    /\ attempts' = [attempts EXCEPT ![w][ParseStep] = 1]
    /\ UNCHANGED <<errors, output, dbVars, faults, resumed>>

(***************************************************************************)
(* step.do(name, defaultConfig, callback).                                 *)
(***************************************************************************)
\* run without the await on insertExpenseRecord: finalize is called with it.
CalledAfterInsertNotAwaited(s) ==
    CASE s = ParseStep -> {RecordStep}
      [] s = RecordStep -> {ExtractStep, ClassifyStep, InsertStep, FinalizeStep}
      [] OTHER -> {}

\* The step.do calls run makes once the promise of s has resolved: up to the next
\* await.  Steps 3 and 4 are not awaited, so steps 3, 4 and 5 are called together.
CalledAfter(s) ==
    CASE s = ParseStep -> {RecordStep}
      [] s = RecordStep -> {ExtractStep, ClassifyStep, InsertStep}
      [] s = InsertStep -> {FinalizeStep}
      [] OTHER -> {}

\* The callback returned value: the engine commits it and run goes on; run returns
\* when the last step resolved.
Commit(w, s, value) ==
    /\ output' = [output EXCEPT ![w][s] = Some(value)]
    /\ stepState' = [stepState EXCEPT ![w] =
                       [t \in Steps |-> IF t = s THEN "done"
                                        ELSE IF t \in CalledAfter(s) THEN "running"
                                        ELSE @[t]]]
    /\ attempts' = [attempts EXCEPT ![w] =
                      [t \in Steps |-> IF t \in CalledAfter(s) THEN 1 ELSE @[t]]]
    /\ instance' = IF s = FinalizeStep THEN [instance EXCEPT ![w] = "complete"]
                   ELSE instance
    /\ UNCHANGED errors

\* The attempt ended with error: the engine retries while the budget lasts, else
\* the step.do promise rejects, which ends run when run awaits it.
Throw(w, s, error) ==
    LET exhausted == attempts[w][s] > RetriesLimit
    IN  /\ errors' = [errors EXCEPT ![w][s] = @ \cup {error}]
        /\ attempts' = [attempts EXCEPT ![w][s] = IF exhausted THEN @ ELSE @ + 1]
        /\ stepState' = [stepState EXCEPT ![w][s] = IF exhausted THEN "failed" ELSE @]
        /\ instance' = IF exhausted /\ s \in AwaitedSteps
                       THEN [instance EXCEPT ![w] = "errored"]
                       ELSE instance
        /\ UNCHANGED output

\* The environment uses up one of its faults, or none.
Fault(used) ==
    IF used THEN faults < MaxFaults /\ faults' = faults + 1 ELSE UNCHANGED faults

\* An attempt fails before it changed anything: an exception of a library or a
\* binding, or the step timeout.
AttemptFails(w, s) ==
    /\ Running(w, s)
    /\ Throw(w, s, "timeout")
    /\ Fault(TRUE)
    /\ UNCHANGED <<payload, dbVars, resumed>>

(***************************************************************************)
(* The callbacks of the six steps of run.                                  *)
(***************************************************************************)
parsedEmailObject(w) == output[w][ParseStep][1]

initialEmailRecord(w) == output[w][RecordStep][1]

parsedContent(w) == output[w][ExtractStep][1]

aiParsedExpense(w) == output[w][ClassifyStep][1]

\* Step 1
ParseEmail(w) ==
    /\ Running(w, ParseStep)
    /\ \E parsed \in {ParsedEmailSchema(payload[w])} :
          IF parsed.success THEN Commit(w, ParseStep, parsed.data)
          ELSE Throw(w, ParseStep, "ZodError")
    /\ UNCHANGED <<payload, dbVars, faults, resumed>>

\* Step 2.  lost: the INSERT was applied, but the attempt timed out or the
\* engine stopped before the result was committed.  meta: the response of the
\* binding carries meta; without it dbResponse.meta?.last_row_id is undefined,
\* which 0 stands for (both are falsy).
RecordInitialEmailProcessing(w, lost, meta) ==
    /\ Running(w, RecordStep)
    /\ \E emailData \in {parsedEmailObject(w)} :
       \E dbResponse \in {InsertProcessedEmail(processed_emails,
                               sqlite_sequence.processed_emails, emailData.messageId,
                               emailData.subject[1], emailData.from.address, FALSE)} :
           /\ processed_emails' = dbResponse.table
           /\ sqlite_sequence' =
                [sqlite_sequence EXCEPT !.processed_emails = dbResponse.seq]
           /\ IF ~dbResponse.success
              THEN ~lost /\ meta /\ Throw(w, RecordStep, dbResponse.error)
              ELSE IF lost THEN meta /\ Throw(w, RecordStep, "timeout")
              ELSE Commit(w, RecordStep,
                          [emailRecordId |-> IF meta THEN dbResponse.last_row_id ELSE 0,
                           success |-> dbResponse.success])
    /\ Fault(lost \/ ~meta)
    /\ UNCHANGED <<payload, expenses, resumed>>

\* Step 3
ExtractTextForAI(w) ==
    /\ Running(w, ExtractStep)
    /\ \E emailData \in {parsedEmailObject(w)} :
          IF ExtractThrows(emailData) THEN Throw(w, ExtractStep, "Error")
          ELSE \E content \in {ExtractText(emailData)} : Commit(w, ExtractStep, content)
    /\ UNCHANGED <<payload, dbVars, faults, resumed>>

\* Step 4.  The callback first awaits parsedContent, the promise of step 3.
SendToAI(w, response) ==
    /\ Running(w, ClassifyStep)
    /\ Settled(w, ExtractStep)
    /\ IF ~Done(w, ExtractStep)
       THEN Throw(w, ClassifyStep, "rejected")
       ELSE \E parsedAiData \in {ExpenseSchema(response)} :
               IF parsedAiData.success
               THEN Commit(w, ClassifyStep, parsedAiData.data)
               ELSE Throw(w, ClassifyStep, parsedAiData.error)
    /\ UNCHANGED <<payload, dbVars, faults, resumed>>

\* Step 5.  The callback first awaits aiParsedExpense, the promise of step 4.
InsertExpenseRecord(w, lost) ==
    /\ Running(w, InsertStep)
    /\ Settled(w, ClassifyStep)
    /\ IF ~Done(w, ClassifyStep)
       THEN /\ ~lost
            /\ Throw(w, InsertStep, "rejected")
            /\ UNCHANGED dbVars
       ELSE \E aiData \in {aiParsedExpense(w)}, emailDbRecord \in {initialEmailRecord(w)} :
               IF emailDbRecord.emailRecordId = 0
               THEN /\ ~lost
                    /\ Throw(w, InsertStep, "Error")
                    /\ UNCHANGED dbVars
               ELSE \E formattedDate \in {FormattedDate(aiData.expenseDate)} :
                    \E dbResponse \in
                          {InsertExpense(expenses, sqlite_sequence.expenses,
                               processed_emails, emailDbRecord.emailRecordId,
                               aiData.amountValue, aiData.currencyCode,
                               aiData.description, formattedDate,
                               aiData.category, aiData.vendor)} :
                         /\ expenses' = dbResponse.table
                         /\ sqlite_sequence' =
                              [sqlite_sequence EXCEPT !.expenses = dbResponse.seq]
                         /\ UNCHANGED processed_emails
                         /\ IF ~dbResponse.success
                            THEN ~lost /\ Throw(w, InsertStep, dbResponse.error)
                            ELSE IF lost THEN Throw(w, InsertStep, "timeout")
                            ELSE Commit(w, InsertStep,
                                        [success |-> dbResponse.success,
                                         last_row_id |-> dbResponse.last_row_id,
                                         changes |-> 1])
    /\ Fault(lost)
    /\ UNCHANGED <<payload, resumed>>

\* Step 6
FinalizeEmailProcessingStatus(w, lost) ==
    /\ Running(w, FinalizeStep)
    /\ \E emailDbRecord \in {initialEmailRecord(w)} :
          IF emailDbRecord.emailRecordId = 0
          THEN /\ ~lost
               /\ Commit(w, FinalizeStep, [success |-> FALSE, changes |-> 0])
               /\ UNCHANGED processed_emails
          ELSE \E dbResponse \in {UpdateProcessedEmailStatus(processed_emails,
                                      "processed", emailDbRecord.emailRecordId)} :
                    /\ processed_emails' = dbResponse.table
                    /\ IF ~dbResponse.success
                       THEN ~lost /\ Throw(w, FinalizeStep, dbResponse.error)
                       ELSE IF lost THEN Throw(w, FinalizeStep, "timeout")
                       ELSE Commit(w, FinalizeStep,
                                   [success |-> dbResponse.success,
                                    changes |-> dbResponse.changes])
    /\ Fault(lost)
    /\ UNCHANGED <<payload, expenses, sqlite_sequence, resumed>>

(***************************************************************************)
(* The engine restarts an instance: run is entered again from the top.     *)
(* step.do returns the committed result of a step that is done and         *)
(* rethrows the committed error of one that failed; an attempt that was    *)
(* in flight is lost and counts against the step's budget.                 *)
(***************************************************************************)
\* run without the durable wrapper around its INSERT into processed_emails.
DurableStepsButRecord == Steps \ {RecordStep}

\* The callbacks that run wraps in step.do: only their results are kept.
DurableSteps == Steps

Restart(w) ==
    LET interrupted == {s \in DurableSteps : stepState[w][s] = "running"}
        exhausted == {s \in interrupted : attempts[w][s] > RetriesLimit}
        repeated == {s \in Steps \ DurableSteps : stepState[w][s] # "pending"}
    IN  /\ instance[w] = "running"
        /\ faults < MaxFaults
        /\ faults' = faults + 1
        /\ resumed' = [resumed EXCEPT
                         ![w] = @ \/ (Done(w, RecordStep) /\ ~Done(w, InsertStep))]
        /\ stepState' = [stepState EXCEPT ![w] =
                           [s \in Steps |-> IF s \in exhausted THEN "failed"
                                            ELSE IF s \in repeated THEN "running"
                                            ELSE @[s]]]
        /\ attempts' = [attempts EXCEPT ![w] =
                          [s \in Steps |-> IF s \in (interrupted \ exhausted) \cup repeated
                                           THEN @[s] + 1 ELSE @[s]]]
        /\ errors' = [errors EXCEPT ![w] =
                        [s \in Steps |-> IF s \in interrupted
                                         THEN @[s] \cup {"timeout"} ELSE @[s]]]
        /\ instance' = IF exhausted \cap AwaitedSteps # {}
                       THEN [instance EXCEPT ![w] = "errored"]
                       ELSE instance
        /\ UNCHANGED <<payload, output, dbVars>>

Next ==
    \/ \E w \in Instances, rawEmail \in Emails : email(w, rawEmail)
    \/ \E w \in Instances : ParseEmail(w)
    \/ \E w \in Instances, lost \in BOOLEAN, meta \in BOOLEAN :
          RecordInitialEmailProcessing(w, lost, meta)
    \/ \E w \in Instances : ExtractTextForAI(w)
    \/ \E w \in Instances, response \in AIResponses : SendToAI(w, response)
    \/ \E w \in Instances, lost \in BOOLEAN : InsertExpenseRecord(w, lost)
    \/ \E w \in Instances, lost \in BOOLEAN : FinalizeEmailProcessingStatus(w, lost)
    \/ \E w \in Instances, s \in Steps : AttemptFails(w, s)
    \/ \E w \in Instances : Restart(w)

Spec == Init /\ [][Next]_vars

(***************************************************************************)
(* The engine runs the callback of every step that is running: an          *)
(* instance that can take one of its steps further eventually does.        *)
(***************************************************************************)
Progress(w) ==
    \/ ParseEmail(w)
    \/ \E lost \in BOOLEAN, meta \in BOOLEAN : RecordInitialEmailProcessing(w, lost, meta)
    \/ ExtractTextForAI(w)
    \/ \E response \in AIResponses : SendToAI(w, response)
    \/ \E lost \in BOOLEAN : InsertExpenseRecord(w, lost)
    \/ \E lost \in BOOLEAN : FinalizeEmailProcessingStatus(w, lost)

FairSpec == Spec /\ \A w \in Instances : WF_vars(Progress(w))

(***************************************************************************)
(* The date conversion on its own.  One run has parsed and recorded its    *)
(* email and extracted the text; the model then answers with any of a      *)
(* range of expenseDate strings, well-formed or not, and the run goes on   *)
(* without faults.                                                         *)
(***************************************************************************)
Days == {<<"0", "1">>, <<"0", "5">>, <<"3", "1">>, <<"9", "9">>}

Months == {<<"0", "1">>, <<"1", "1">>, <<"1", "2">>}

Years == {<<"2", "0", "2", "5">>, <<"1", "9", "9", "9">>, <<"0", "0", "0", "1">>,
          <<"1", "1", "0", "1">>}

\* Strings of the form DD-MM-YYYY.
Dates == {d \o <<"-">> \o m \o <<"-">> \o y : d \in Days, m \in Months, y \in Years}

\* Strings the regex of ExpenseSchema rejects.
MalformedDates ==
    { <<"5", "-", "1", "1", "-", "2", "0", "2", "5">>,
      <<"2", "0", "2", "5", "-", "1", "1", "-", "0", "5">>,
      <<"0", "5", "/", "1", "1", "/", "2", "0", "2", "5">>,
      <<"0", "5", "-", "1", "1", "-", "2", "5">>,
      <<>> }

DateResponses ==
    {Response(Some("Acme"), Some(d), Some(42), Some(<<"u", "s", "d">>), Some("Meals")) :
       d \in Dates \cup MalformedDates}

DateInit ==
    \E rawEmail \in {e \in Emails : e.messageId = Some("m1")} :
    \E emailData \in {ParsedEmailSchema(rawEmail).data} :
    \E dbResponse \in {InsertProcessedEmail({}, 0, emailData.messageId,
                          emailData.subject[1], emailData.from.address, FALSE)} :
       /\ instance = [w \in Instances |-> IF w = "w1" THEN "running" ELSE "none"]
       /\ payload = [w \in Instances |-> IF w = "w1" THEN rawEmail ELSE NoEmail]
       /\ stepState =
            [w \in Instances |->
               [s \in Steps |->
                  IF w # "w1" THEN "pending"
                  ELSE IF s \in {ParseStep, RecordStep, ExtractStep} THEN "done"
                  ELSE IF s \in {ClassifyStep, InsertStep} THEN "running"
                  ELSE "pending"]]
       /\ attempts =
            [w \in Instances |->
               [s \in Steps |-> IF w = "w1" /\ s # FinalizeStep THEN 1 ELSE 0]]
       /\ errors = [w \in Instances |-> [s \in Steps |-> {}]]
       /\ output =
            [w \in Instances |->
               [s \in Steps |->
                  IF w # "w1" THEN <<>>
                  ELSE IF s = ParseStep THEN Some(emailData)
                  ELSE IF s = RecordStep
                       THEN Some([emailRecordId |-> dbResponse.last_row_id,
                                  success |-> dbResponse.success])
                  ELSE IF s = ExtractStep THEN Some(ExtractText(emailData))
                  ELSE <<>>]]
       /\ processed_emails = dbResponse.table
       /\ expenses = {}
       /\ sqlite_sequence = [processed_emails |-> dbResponse.seq, expenses |-> 0]
       /\ faults = 0
       /\ resumed = [w \in Instances |-> FALSE]

DateNext ==
    \/ \E response \in DateResponses : SendToAI("w1", response)
    \/ InsertExpenseRecord("w1", FALSE)
    \/ FinalizeEmailProcessingStatus("w1", FALSE)

DateSpec == DateInit /\ [][DateNext]_vars

(***************************************************************************)
(* Vocabulary of the properties.                                           *)
(***************************************************************************)
Ended(w) == instance[w] \in {"complete", "errored"}

\* The processed_emails rows with the messageId of w's email.
LedgerRowsOf(w) ==
    {row \in processed_emails : payload[w].messageId = Some(row.message_id)}

\* The expenses rows that reference a row of rows.
ExpensesOf(rows) == {e \in expenses : \E row \in rows : e.email_id = row.id}

\* The ledger row whose id recordInitialEmailProcessing returned to w.
OwnLedgerRow(w) ==
    {row \in processed_emails : row.id = initialEmailRecord(w).emailRecordId}

StepOrder ==
    <<ParseStep, RecordStep, ExtractStep, ClassifyStep, InsertStep, FinalizeStep>>

(***************************************************************************)
(* C1.  For any two runs on emails with the same messageId, once both have *)
(* ended (and one of them recorded the email) the store holds exactly one  *)
(* processed_emails row with that messageId and at most one expenses row   *)
(* referencing it.                                                         *)
(***************************************************************************)
C1_OneLedgerRowOneExpense ==
    \A w1, w2 \in Instances :
       ( /\ w1 # w2
         /\ Ended(w1) /\ Ended(w2)
         /\ payload[w1].messageId # Undefined
         /\ payload[w1].messageId = payload[w2].messageId
         /\ Done(w1, RecordStep) \/ Done(w2, RecordStep) )
       => /\ Cardinality(LedgerRowsOf(w1)) = 1
          /\ Cardinality(ExpensesOf(LedgerRowsOf(w1))) <= 1

(***************************************************************************)
(* C2.  An INSERT of recordInitialEmailProcessing that hits the UNIQUE     *)
(* constraint on message_id does not fail the run: no run ends errored     *)
(* with that step failed on the constraint.                                *)
(***************************************************************************)
C2_DuplicateDoesNotFailRun ==
    \A w \in Instances :
       ~( /\ instance[w] = "errored"
          /\ stepState[w][RecordStep] = "failed"
          /\ "SQLITE_CONSTRAINT_UNIQUE" \in errors[w][RecordStep] )

(***************************************************************************)
(* C3.  Re-executing a store-writing step after an attempt whose write was *)
(* applied but whose result was lost leaves the rows of one execution: no  *)
(* ledger row is ever referenced by two expenses rows.                     *)
(***************************************************************************)
C3_RetryLeavesOneExpense ==
    \A row \in processed_emails : Cardinality(ExpensesOf({row})) <= 1

(***************************************************************************)
(* C4.  A run restarted after recordInitialEmailProcessing committed and   *)
(* before insertExpenseRecord committed does not execute                   *)
(* recordInitialEmailProcessing again (no further attempt, same result),   *)
(* and when its remaining steps succeed it is complete, with all of        *)
(* extract, classify, insert and finalize done and its ledger row          *)
(* processed.                                                              *)
(***************************************************************************)
C4_ResumeSkipsRecordAndCompletes ==
    [][\A w \in Instances :
          /\ (Done(w, RecordStep) /\ resumed'[w])
               => /\ stepState'[w][RecordStep] = "done"
                  /\ attempts'[w][RecordStep] = attempts[w][RecordStep]
                  /\ output'[w][RecordStep] = output[w][RecordStep]
                  /\ LedgerRowsOf(w)' = {row \in LedgerRowsOf(w)' :
                                           \E old \in LedgerRowsOf(w) : old.id = row.id}
          /\ (resumed'[w] /\ stepState'[w][FinalizeStep] = "done")
               => /\ instance'[w] = "complete"
                  /\ \A s \in Steps : stepState'[w][s] = "done"
                  /\ \A row \in OwnLedgerRow(w)' : row.status = "processed"
                  /\ OwnLedgerRow(w)' # {}]_vars

C4_Witness ==
    \E w \in Instances : resumed[w] /\ instance[w] = "complete"

(***************************************************************************)
(* C5.  Within one run the six steps are strictly sequential: at most one  *)
(* step is in progress at a time, and a step has been started only if      *)
(* every step before it in the order has committed.                        *)
(***************************************************************************)
C5_StepsStrictlySequential ==
    \A w \in Instances :
       /\ Cardinality({s \in Steps : stepState[w][s] = "running"}) <= 1
       /\ \A i \in 1..Len(StepOrder) :
             stepState[w][StepOrder[i]] # "pending"
                => \A j \in 1..(i - 1) : stepState[w][StepOrder[j]] = "done"

(***************************************************************************)
(* C6.  Every step is attempted at most twice per run (one attempt and     *)
(* one retry); a run never completes with a step that exhausted its        *)
(* budget; a settled step is never executed again; and every run           *)
(* terminates: a run that has not ended can always take one of its steps   *)
(* further, and every transition adds to a count of work done (attempts    *)
(* started, steps settled, runs started and ended, faults) that is         *)
(* bounded, so no behaviour takes infinitely many steps.                   *)
(***************************************************************************)
WorkOfStep(w, s) == attempts[w][s] + (IF Settled(w, s) THEN 1 ELSE 0)

RECURSIVE WorkOfSteps(_, _)
WorkOfSteps(w, i) ==
    IF i = 0 THEN 0 ELSE WorkOfStep(w, StepOrder[i]) + WorkOfSteps(w, i - 1)

WorkOfInstance(w) ==
    WorkOfSteps(w, Len(StepOrder))
      + (CASE instance[w] = "none" -> 0 [] instance[w] = "running" -> 1 [] OTHER -> 2)

RECURSIVE WorkOfInstances(_)
WorkOfInstances(S) ==
    IF S = {} THEN 0
    ELSE LET w == CHOOSE x \in S : TRUE
         IN  WorkOfInstance(w) + WorkOfInstances(S \ {w})

WorkDone == faults + WorkOfInstances(Instances)

C6_BoundedAttemptsAndTermination ==
    /\ [](\A w \in Instances, s \in Steps : attempts[w][s] <= 2)
    /\ [](\A w \in Instances :
             instance[w] = "complete" => \A s \in Steps : stepState[w][s] = "done")
    /\ [][\A w \in Instances, s \in Steps :
             Settled(w, s) => /\ stepState'[w][s] = stepState[w][s]
                              /\ attempts'[w][s] = attempts[w][s]]_vars
    /\ [](\A w \in Instances : instance[w] = "running" => ENABLED Progress(w))
    /\ [][WorkDone' > WorkDone]_vars
    /\ [](WorkDone <= MaxFaults + Cardinality(Instances) * (2 + 3 * Len(StepOrder)))

C6_Witness ==
    \E w \in Instances, s \in Steps :
       /\ stepState[w][s] = "failed"
       /\ attempts[w][s] = 2
       /\ instance[w] = "errored"
       /\ stepState[w][ParseStep] = "done"

(***************************************************************************)
(* C7.  When every attempt of the classify step failed validation, the     *)
(* run ends with its ledger row in status failed and no expenses row for   *)
(* it.                                                                     *)
(***************************************************************************)
C7_ValidationFailureMarksFailed ==
    \A w \in Instances :
       ( /\ Ended(w)
         /\ stepState[w][ClassifyStep] = "failed"
         /\ errors[w][ClassifyStep] = {"ZodError"} )
       => /\ \A row \in OwnLedgerRow(w) : row.status = "failed"
          /\ ExpensesOf(OwnLedgerRow(w)) = {}

(***************************************************************************)
(* C8.  The text put into the prompt sent to the model contains no         *)
(* occurrence of a configured PII literal.                                 *)
(***************************************************************************)
C8_PromptHasNoPii ==
    \A w \in Instances :
       Done(w, ClassifyStep)
          => \A lit \in PiiLiterals : ~Includes(parsedContent(w).contentForAi, lit)

(***************************************************************************)
(* C9.  The extracted content follows the policy: the (redacted) text of   *)
(* the first PDF attachment with source attachment if there is one; else   *)
(* the plain-text body, else the HTML body, with source body; else empty   *)
(* with source none.                                                       *)
(***************************************************************************)
C9_ExtractionPolicy ==
    \A w \in Instances :
       Done(w, ExtractStep)
          => LET emailData == parsedEmailObject(w)
                 i == FirstPdf(emailData.attachments, 1)
             IN  parsedContent(w) =
                   IF i # 0
                   THEN [contentForAi |-> RedactFirst(emailData.attachments[i].text),
                         type |-> "attachment"]
                   ELSE IF Truthy(emailData.text)
                   THEN [contentForAi |-> RedactAll(emailData.text[1]), type |-> "body"]
                   ELSE IF Truthy(emailData.html)
                   THEN [contentForAi |-> RedactAll(emailData.html[1]), type |-> "body"]
                   ELSE [contentForAi |-> <<>>, type |-> "none"]

(***************************************************************************)
(* C10.  Every expenses row references an existing processed_emails row,   *)
(* and its status is non_reimbursable exactly when its is_reimbursable     *)
(* flag is 0.                                                              *)
(***************************************************************************)
C10_ExpenseRowsWellFormed ==
    \A e \in expenses :
       /\ \E row \in processed_emails : row.id = e.email_id
       /\ e.status = "non_reimbursable" <=> e.is_reimbursable = 0

C10_Witness ==
    /\ Cardinality(processed_emails) = 2
    /\ \E e \in expenses : e.email_id = 2


\* The run to which recordInitialEmailProcessing returned no ledger id.
MissingLedgerId(w) ==
    Done(w, RecordStep) /\ initialEmailRecord(w).emailRecordId = 0

(***************************************************************************)
(* C11.  When insertExpenseRecord runs without the ledger id of            *)
(* recordInitialEmailProcessing, the step fails without an INSERT into     *)
(* expenses and is not retried: its body is executed exactly once.         *)
(***************************************************************************)
C11_MissingIdInsertNotRetried ==
    \A w \in Instances :
       (MissingLedgerId(w) /\ Done(w, ClassifyStep) /\ Settled(w, InsertStep))
          => /\ stepState[w][InsertStep] = "failed"
             /\ attempts[w][InsertStep] = 1
             /\ expenses = {}

(***************************************************************************)
(* C12.  A run to which recordInitialEmailProcessing returned no ledger id *)
(* still completes: the finalize step reports success = false without      *)
(* throwing and without a write, and the run does not end in an error.     *)
(***************************************************************************)
C12_MissingIdRunCompletes ==
    \A w \in Instances :
       (MissingLedgerId(w) /\ Done(w, ClassifyStep) /\ Ended(w))
          => /\ instance[w] = "complete"
             /\ Done(w, FinalizeStep)
             /\ output[w][FinalizeStep][1].success = FALSE

(***************************************************************************)
(* C13.  Validation accepts a response only if its category is one of the  *)
(* eight labels: a response with another category is rejected by the       *)
(* classify step and never reaches insertExpenseRecord.                    *)
(***************************************************************************)
C13_CategoryValidated ==
    \A w \in Instances :
       Done(w, ClassifyStep) => aiParsedExpense(w).category \in validCategories

(***************************************************************************)
(* C14.  When the classify step failed on all its attempts the run ends in *)
(* failure and insertExpenseRecord is never attempted: the step is not     *)
(* started and the run issues no INSERT into expenses.                     *)
(***************************************************************************)
C14_InsertNotStartedAfterClassifyFailure ==
    \A w \in Instances :
       stepState[w][ClassifyStep] = "failed"
          => /\ stepState[w][InsertStep] = "pending"
             /\ attempts[w][InsertStep] = 0
             /\ ExpensesOf(OwnLedgerRow(w)) = {}


\* In this transition an attempt of step s of w ended, or the step settled.
StepTaken(w, s) ==
    /\ Running(w, s)
    /\ stepState'[w][s] # "running" \/ attempts'[w][s] > attempts[w][s]

(***************************************************************************)
(* C15.  A processed_emails row is created only by                         *)
(* recordInitialEmailProcessing and afterwards changed only by             *)
(* finalizeEmailProcessingStatus, and only in its status: the parse,       *)
(* extract, classify and insert steps leave the table unchanged, and no    *)
(* row is ever deleted.                                                    *)
(***************************************************************************)
C15_LedgerFrame ==
    [][/\ \A old \in processed_emails :
             \E new \in processed_emails' : [new EXCEPT !.status = old.status] = old
       /\ \A w \in Instances, s \in {ParseStep, ExtractStep, ClassifyStep, InsertStep} :
             StepTaken(w, s) => processed_emails' = processed_emails
       /\ processed_emails' # processed_emails
            => \/ \E w \in Instances :
                     /\ StepTaken(w, RecordStep)
                     /\ processed_emails \subseteq processed_emails'
                     /\ Cardinality(processed_emails') = Cardinality(processed_emails) + 1
                     /\ \A row \in processed_emails' \ processed_emails :
                           /\ row.status = "pending"
                           /\ payload[w].messageId = Some(row.message_id)
               \/ \E w \in Instances :
                     /\ StepTaken(w, FinalizeStep)
                     /\ {row.id : row \in processed_emails'}
                          = {row.id : row \in processed_emails}]_vars

C15_Witness ==
    /\ \E w \in Instances :
          Done(w, FinalizeStep) /\ \E row \in OwnLedgerRow(w) : row.status = "processed"
    /\ \E row \in processed_emails : row.status = "pending"


(***************************************************************************)
(* C16.  No expenses row has amount <= 0.  Validation accepts a response   *)
(* whose amountValue is zero or negative, but every INSERT of              *)
(* insertExpenseRecord for it is rejected by the store: the step never     *)
(* commits, the run creates no expenses row and goes no further, and once  *)
(* the step's budget is used up the run has ended in failure.              *)
(***************************************************************************)
C16_NoNonPositiveAmount ==
    /\ \A e \in expenses : e.amount > 0
    /\ \A w \in Instances :
          (Done(w, ClassifyStep) /\ aiParsedExpense(w).amountValue <= 0)
             => /\ ~Done(w, InsertStep)
                /\ ExpensesOf(OwnLedgerRow(w)) = {}
                /\ stepState[w][FinalizeStep] = "pending"
                /\ instance[w] # "complete"
                /\ Settled(w, InsertStep) => instance[w] = "errored"

C16_Witness ==
    \E w \in Instances :
       /\ Done(w, ClassifyStep)
       /\ aiParsedExpense(w).amountValue <= 0
       /\ stepState[w][InsertStep] = "failed"
       /\ errors[w][InsertStep] = {"SQLITE_CONSTRAINT_CHECK"}
       /\ instance[w] = "errored"


\* YYYY-MM-DD back to DD-MM-YYYY.
DisplayDate(isoDate) ==
    CHOOSE out \in {parts[3] \o <<"-">> \o parts[2] \o <<"-">> \o parts[1] :
                    parts \in {Split(isoDate, "-")}} : TRUE

(***************************************************************************)
(* C17.  For every expenseDate that validation accepts, the date that      *)
(* insertExpenseRecord stores has the form YYYY-MM-DD and converts back    *)
(* to exactly the original DD-MM-YYYY string; no two accepted dates are    *)
(* stored as the same string.                                              *)
(***************************************************************************)
C17_DateRoundTrip ==
    /\ \A w \in Instances :
          Done(w, ClassifyStep)
             => /\ aiParsedExpense(w).expenseDate \in Dates
                /\ \A e \in ExpensesOf(OwnLedgerRow(w)) :
                      /\ Len(e.expense_date) = 10
                      /\ e.expense_date[5] = "-" /\ e.expense_date[8] = "-"
                      /\ DisplayDate(e.expense_date) = aiParsedExpense(w).expenseDate
    /\ \A d \in Dates \cup MalformedDates :
          MatchesDate(d)
             => /\ d \in Dates
                /\ DisplayDate(FormattedDate(d)) = d
                /\ \A other \in Dates :
                      FormattedDate(other) = FormattedDate(d) => other = d

C17_Witness ==
    /\ instance["w1"] = "complete"
    /\ \E e \in expenses :
          /\ e.expense_date = <<"1", "9", "9", "9", "-", "1", "2", "-", "3", "1">>
          /\ aiParsedExpense("w1").expenseDate
               = <<"3", "1", "-", "1", "2", "-", "1", "9", "9", "9">>


(***************************************************************************)
(* C18.  A processed_emails row has status processed only if an expenses   *)
(* row references it: the finalize step is attempted only after            *)
(* insertExpenseRecord of the same run has committed.                      *)
(***************************************************************************)
C18_ProcessedHasExpense ==
    /\ \A row \in processed_emails :
          row.status = "processed" => \E e \in expenses : e.email_id = row.id
    /\ \A w \in Instances :
          attempts[w][FinalizeStep] > 0
             => /\ Done(w, InsertStep)
                /\ ExpensesOf(OwnLedgerRow(w)) # {}

C18_Witness ==
    \E w \in Instances :
       /\ Done(w, FinalizeStep)
       /\ Cardinality(ExpensesOf(OwnLedgerRow(w))) = 1
       /\ \A row \in OwnLedgerRow(w) : row.status = "processed"
       /\ OwnLedgerRow(w) # {}


(***************************************************************************)
(* C19 as stated.  The only status values of processed_emails rows are     *)
(* pending and processed, and a run that fails at any step after           *)
(* recordInitialEmailProcessing leaves its ledger row pending.             *)
(***************************************************************************)
C19_FailedRunLeavesPending ==
    /\ \A row \in processed_emails : row.status \in {"pending", "processed"}
    /\ \A w \in Instances :
          (Done(w, RecordStep) /\ instance[w] = "errored")
             => \A row \in OwnLedgerRow(w) : row.status = "pending"

(***************************************************************************)
(* C19.  The only status values of processed_emails rows are pending and   *)
(* processed, and a processed row stays processed.  A run that fails       *)
(* after recordInitialEmailProcessing and before insertExpenseRecord       *)
(* committed leaves its ledger row pending for ever.  (A run that fails at *)
(* the finalize step can leave its row processed: the UPDATE of an attempt *)
(* that timed out was applied.)                                            *)
(***************************************************************************)
C19_StatusTransitions ==
    /\ [](\A row \in processed_emails : row.status \in {"pending", "processed"})
    /\ [][\A old \in processed_emails, new \in processed_emails' :
             (old.id = new.id /\ old.status = "processed") => new.status = "processed"]_vars
    /\ [](\A w \in Instances :
             (Done(w, RecordStep) /\ instance[w] = "errored" /\ ~Done(w, InsertStep))
                => \A row \in OwnLedgerRow(w) : row.status = "pending")
    /\ [][\A w \in Instances :
             (Done(w, RecordStep) /\ instance[w] = "errored" /\ ~Done(w, InsertStep))
                => /\ instance'[w] = "errored"
                   /\ OwnLedgerRow(w)' = OwnLedgerRow(w)]_vars

C19_Witness ==
    \E w \in Instances :
       /\ instance[w] = "errored"
       /\ stepState[w][InsertStep] = "failed"
       /\ OwnLedgerRow(w) # {}
       /\ \A row \in OwnLedgerRow(w) : row.status = "pending"
       /\ \E row \in processed_emails : row.status = "processed"


(***************************************************************************)
(* C20.  A run in which every step succeeded within its retry budget has   *)
(* terminated with its ledger row processed and exactly one expenses row   *)
(* referencing it, whose fields are the validated output of the model.     *)
(***************************************************************************)
C20_CompleteRunHasOneExpense ==
    \A w \in Instances :
       (instance[w] = "complete" /\ \A s \in Steps : Done(w, s))
          => /\ OwnLedgerRow(w) # {}
             /\ \A row \in OwnLedgerRow(w) : row.status = "processed"
             /\ Cardinality(ExpensesOf(OwnLedgerRow(w))) = 1
             /\ \A e \in ExpensesOf(OwnLedgerRow(w)) :
                   /\ e.amount = aiParsedExpense(w).amountValue
                   /\ e.currency = aiParsedExpense(w).currencyCode
                   /\ e.category = aiParsedExpense(w).category
                   /\ e.vendor = aiParsedExpense(w).vendor
                   /\ e.expense_date = FormattedDate(aiParsedExpense(w).expenseDate)

====
